---- MODULE Spec2Model ----
(***************************************************************************)
(* Model of the property search backend (src/main.py): the geocoder, the   *)
(* Denton CAD spatial query client, the field normalizer, the single       *)
(* family classifier, the search route and the export route.               *)
(*                                                                         *)
(* Python values are tagged records [k, s, n]:                             *)
(*   k = "missing" (key absent from the dict), "null" (None), "str",       *)
(*       "int", "float", "bool";                                           *)
(*   s = the characters of a str, a tuple of one-character strings;        *)
(*   n = an int, a bool (0/1), or a float in tenths (fixed point).         *)
(***************************************************************************)
EXTENDS Integers, Sequences, FiniteSets, TLC

VARIABLES feature, normResult, sfResult,
          req, geoResp, cadResp, pc, coords, features, records,
          calls, cadRequests, searchOutcome, outcome

featureVars == <<feature, normResult, sfResult>>
searchVars == <<req, geoResp, cadResp, pc, coords, features, records,
                calls, cadRequests, searchOutcome, outcome>>
vars == <<feature, normResult, sfResult,
          req, geoResp, cadResp, pc, coords, features, records,
          calls, cadRequests, searchOutcome, outcome>>

(***************************************************************************)
(* Bounds of the model.                                                    *)
(***************************************************************************)
\* number of text fragments concatenated into one classifier attribute
MaxFrags == 2
\* number of features in one spatial query response
MaxFeatures == 2
\* how far an upstream body may exceed the truncation length
ExtraLen == 2

(***************************************************************************)
(* Python values.                                                          *)
(***************************************************************************)
Missing == [k |-> "missing", s |-> <<>>, n |-> 0]
None == [k |-> "null", s |-> <<>>, n |-> 0]
StrV(chars) == [k |-> "str", s |-> chars, n |-> 0]
IntV(i) == [k |-> "int", s |-> <<>>, n |-> i]
FloatV(tenths) == [k |-> "float", s |-> <<>>, n |-> tenths]
BoolV(b) == [k |-> "bool", s |-> <<>>, n |-> IF b THEN 1 ELSE 0]

\* dict.get(name): None when the key is absent
Get(attrs, name) == IF attrs[name].k = "missing" THEN None ELSE attrs[name]

\* dict.get(name, ""): the empty string when the key is absent
GetOrEmpty(attrs, name) ==
    IF attrs[name].k = "missing" THEN StrV(<<>>) ELSE attrs[name]

\* bool(v), the test the `or` operator applies to its left operand
Truthy(v) ==
    CASE v.k = "null" -> FALSE
      [] v.k = "str" -> v.s # <<>>
      [] v.k = "int" -> v.n # 0
      [] v.k = "float" -> v.n # 0
      [] v.k = "bool" -> v.n # 0
      [] OTHER -> FALSE

Digit(d) == <<"0", "1", "2", "3", "4", "5", "6", "7", "8", "9">>[d + 1]

RECURSIVE NatToStr(_)
NatToStr(i) == IF i < 10 THEN <<Digit(i)>>
               ELSE NatToStr(i \div 10) \o <<Digit(i % 10)>>

Abs(i) == IF i < 0 THEN 0 - i ELSE i

IntToStr(i) == IF i < 0 THEN <<"-">> \o NatToStr(0 - i) ELSE NatToStr(i)

\* str(v)
Str(v) ==
    CASE v.k = "str" -> v.s
      [] v.k = "null" -> <<"N", "o", "n", "e">>
      [] v.k = "int" -> IntToStr(v.n)
      [] v.k = "float" ->
            (IF v.n < 0 THEN <<"-">> ELSE <<>>)
               \o NatToStr(Abs(v.n) \div 10) \o <<".">> \o <<Digit(Abs(v.n) % 10)>>
      [] v.k = "bool" ->
            IF v.n = 1 THEN <<"T", "r", "u", "e">>
            ELSE <<"F", "a", "l", "s", "e">>
      [] OTHER -> <<>>

UpperChar(c) ==
    CASE c = "a" -> "A" [] c = "b" -> "B" [] c = "c" -> "C" [] c = "d" -> "D"
      [] c = "e" -> "E" [] c = "f" -> "F" [] c = "g" -> "G" [] c = "h" -> "H"
      [] c = "i" -> "I" [] c = "j" -> "J" [] c = "k" -> "K" [] c = "l" -> "L"
      [] c = "m" -> "M" [] c = "n" -> "N" [] c = "o" -> "O" [] c = "p" -> "P"
      [] c = "q" -> "Q" [] c = "r" -> "R" [] c = "s" -> "S" [] c = "t" -> "T"
      [] c = "u" -> "U" [] c = "v" -> "V" [] c = "w" -> "W" [] c = "x" -> "X"
      [] c = "y" -> "Y" [] c = "z" -> "Z" [] OTHER -> c

\* str.upper()
Upper(chars) == [i \in 1..Len(chars) |-> UpperChar(chars[i])]

\* `needle in text` for strings
Contains(text, needle) ==
    \E i \in 0..(Len(text) - Len(needle)) :
        SubSeq(text, i + 1, i + Len(needle)) = needle

\* sep.join(parts)
RECURSIVE Join(_, _)
Join(sep, parts) ==
    IF parts = <<>> THEN <<>>
    ELSE IF Len(parts) = 1 THEN parts[1]
    ELSE parts[1] \o sep \o Join(sep, Tail(parts))

IsDigit(c) == c \in {"0", "1", "2", "3", "4", "5", "6", "7", "8", "9"}

DigitVal(c) == CHOOSE d \in 0..9 : Digit(d) = c

RECURSIVE DigitsVal(_)
DigitsVal(chars) ==
    IF chars = <<>> THEN 0
    ELSE 10 * DigitsVal(SubSeq(chars, 1, Len(chars) - 1))
            + DigitVal(chars[Len(chars)])

RECURSIVE Strip(_)
Strip(chars) ==
    IF chars = <<>> THEN chars
    ELSE IF Head(chars) = " " THEN Strip(Tail(chars))
    ELSE IF chars[Len(chars)] = " " THEN Strip(SubSeq(chars, 1, Len(chars) - 1))
    ELSE chars

\* the position of the decimal point, 0 when there is none
DotPos(chars) ==
    IF \E i \in 1..Len(chars) : chars[i] = "."
    THEN CHOOSE i \in 1..Len(chars) :
            chars[i] = "." /\ \A j \in 1..(i - 1) : chars[j] # "."
    ELSE 0

\* float(text) for decimal literals [sign] digits [. digits]; the result is
\* [ok, n] with n in tenths; ok = FALSE stands for ValueError
ParseFloat(text) ==
    LET t == Strip(text)
        neg == t # <<>> /\ Head(t) = "-"
        signed == t # <<>> /\ Head(t) \in {"-", "+"}
        body == IF signed THEN Tail(t) ELSE t
        dot == DotPos(body)
        ip == IF dot = 0 THEN body ELSE SubSeq(body, 1, dot - 1)
        fp == IF dot = 0 THEN <<>> ELSE SubSeq(body, dot + 1, Len(body))
        wellFormed == /\ \A i \in 1..Len(ip) : IsDigit(ip[i])
                      /\ \A i \in 1..Len(fp) : IsDigit(fp[i])
                      /\ Len(ip) + Len(fp) > 0
        mag == 10 * DigitsVal(ip) + (IF fp = <<>> THEN 0 ELSE DigitVal(fp[1]))
    IN  IF wellFormed
        THEN [ok |-> TRUE, n |-> IF neg THEN 0 - mag ELSE mag]
        ELSE [ok |-> FALSE, n |-> 0]

\* float(v): [ok, n]; ok = FALSE stands for TypeError / ValueError
ToFloat(v) ==
    CASE v.k = "int" -> [ok |-> TRUE, n |-> 10 * v.n]
      [] v.k = "float" -> [ok |-> TRUE, n |-> v.n]
      [] v.k = "bool" -> [ok |-> TRUE, n |-> 10 * v.n]
      [] v.k = "str" -> ParseFloat(v.s)
      [] OTHER -> [ok |-> FALSE, n |-> 0]

\* int(f) of a float in tenths: truncation towards zero
TruncToInt(tenths) ==
    IF tenths < 0 THEN 0 - ((0 - tenths) \div 10) ELSE tenths \div 10

(***************************************************************************)
(* Raw features and the field normalizer.                                  *)
(***************************************************************************)
\* the ordered alternate upstream names of each PropertyRecord field
Aliases ==
    [parcel_id |-> <<"PARCEL_ID", "ParcelID", "ACCOUNT", "Account", "OBJECTID">>,
     address |-> <<"SITUS_ADDR", "SitusAddress", "SITUS", "Address">>,
     owner |-> <<"OWNER", "OwnerName", "OWNER_NAME">>,
     land_value |-> <<"LAND_VALUE", "LandValue", "LANDVAL">>,
     improvement_value |-> <<"IMPR_VALUE", "ImprovementValue", "IMPRVAL">>,
     total_appraised_value |->
        <<"TOTAL_VALUE", "TotalValue", "MKT_VAL", "APPR_VALUE", "ApprValue">>,
     year_built |-> <<"YEAR_BUILT", "YearBuilt">>,
     lot_size |-> <<"LOT_SIZE", "LotSize", "ACRES", "Acres">>,
     legal_description |-> <<"LEGAL_DESC", "LegalDesc", "LEGAL_DESCRIPTION">>,
     property_class |-> <<"PROPERTY_CLASS", "PropClass", "PROP_CLASS">>,
     land_use |-> <<"LAND_USE", "LandUse">>]

AttrFields == DOMAIN Aliases

StrFields == {"parcel_id", "address", "owner", "legal_description",
              "property_class", "land_use"}

FloatFields == {"land_value", "improvement_value", "total_appraised_value",
                "lot_size"}

IntFields == {"year_built"}

\* the attribute names the classifier reads
SfCandidates == <<"LAND_USE", "LandUse", "PROPERTY_CLASS", "PropertyClass",
                  "PROP_CLASS", "PropClass", "PROPERTY_TYPE">>

Range(seq) == {seq[i] : i \in 1..Len(seq)}

AttrNames == UNION {Range(Aliases[f]) : f \in AttrFields} \cup Range(SfCandidates)

\* the empty attribute dict
EmptyAttrs == [name \in AttrNames |-> Missing]

\* feature["attributes"] and feature["geometry"]: k is "map" (a dict),
\* "null" (None) or "missing" (key absent)
MkFeature(ak, m, gk, x, y) ==
    [attributes |-> [k |-> ak, m |-> m],
     geometry |-> [k |-> gk, x |-> x, y |-> y]]

\* a.get(n1) or a.get(n2) or ... or a.get(nk): the first truthy operand,
\* else the last operand whatever it is
RECURSIVE OrChain(_, _)
OrChain(attrs, names) ==
    IF Len(names) = 1 THEN Get(attrs, names[1])
    ELSE IF Truthy(Get(attrs, names[1])) THEN Get(attrs, names[1])
    ELSE OrChain(attrs, Tail(names))

\* DentonCADClient.norm_float
norm_float(val) ==
    IF val.k = "null" THEN None
    ELSE IF ToFloat(val).ok THEN FloatV(ToFloat(val).n)
    ELSE None

\* DentonCADClient.norm_int
norm_int(val) ==
    IF val.k = "null" THEN None
    ELSE IF ToFloat(val).ok THEN IntV(TruncToInt(ToFloat(val).n))
    ELSE None

\* str(v) if v is not None else None
StrOrNone(val) == IF val.k = "null" THEN None ELSE StrV(Str(val))

\* the conversion normalize applies to the value picked for a field
Convert(fld, val) ==
    IF fld \in FloatFields THEN norm_float(val)
    ELSE IF fld \in IntFields THEN norm_int(val)
    ELSE StrOrNone(val)

\* float(x) if isinstance(x, (int, float)) else None; bool is an int
GeomCoord(val) ==
    IF val.k \in {"int", "float", "bool"} THEN FloatV(ToFloat(val).n) ELSE None

NoRecord ==
    [parcel_id |-> None, address |-> None, owner |-> None, land_value |-> None,
     improvement_value |-> None, total_appraised_value |-> None,
     year_built |-> None, lot_size |-> None, legal_description |-> None,
     property_class |-> None, land_use |-> None,
     longitude |-> None, latitude |-> None]

\* feature.get("attributes", {}): the default only replaces an absent key
AttrsOf(f) == IF f.attributes.k = "missing" THEN EmptyAttrs ELSE f.attributes.m

\* feature.get("geometry", {}) or {}, then geom.get(c)
GeomGet(f, c) ==
    IF f.geometry.k = "map" /\ f.geometry[c].k # "missing"
    THEN f.geometry[c] ELSE None

\* attrs.get on None raises AttributeError
AttrsRaises(f) == f.attributes.k = "null"

\* DentonCADClient.normalize: [raised, rec]
normalize(f) ==
    IF AttrsRaises(f) THEN [raised |-> TRUE, rec |-> NoRecord]
    ELSE [raised |-> FALSE,
          rec |-> [fld \in DOMAIN NoRecord |->
                     IF fld = "longitude" THEN GeomCoord(GeomGet(f, "x"))
                     ELSE IF fld = "latitude" THEN GeomCoord(GeomGet(f, "y"))
                     ELSE Convert(fld, OrChain(AttrsOf(f), Aliases[fld]))]]

(***************************************************************************)
(* The single-family classifier.                                           *)
(***************************************************************************)
\* the separator of " ".join(candidates)
JoinSepNone == <<>>

JoinSep == <<" ">>

\* the candidates list of is_single_family
SfTexts(attrs) ==
    [i \in 1..Len(SfCandidates) |-> Str(GetOrEmpty(attrs, SfCandidates[i]))]

SINGLE == <<"S", "I", "N", "G", "L", "E">>

SF == <<"S", "F">>

\* DentonCADClient.is_single_family
is_single_family(attrs) ==
    LET text == Upper(Join(JoinSep, SfTexts(attrs)))
    IN  Contains(text, SINGLE) \/ Contains(text, SF)

\* is_single_family(f.get("attributes", {})): [raised, value]; attrs.get on
\* None raises AttributeError
ClassifyCall(f) ==
    IF AttrsRaises(f) THEN [raised |-> TRUE, value |-> FALSE]
    ELSE [raised |-> FALSE, value |-> is_single_family(AttrsOf(f))]

(***************************************************************************)
(* Raw features the upstream service can send.                             *)
(***************************************************************************)
\* attribute values probed by the normalizer
NormValues ==
    {None, StrV(<<>>), StrV(<<"N", "/", "A">>),
     StrV(<<"2", "0", "0", "5", ".", "0">>), StrV(<<"A", "1">>),
     IntV(0), IntV(5), FloatV(0), FloatV(25), BoolV(FALSE)}

\* text fragments of land-use and property-class codes
Fragments == {<<"S">>, <<"f">>, <<"s", "i", "n", "g">>, <<"L", "E">>}

RECURSIVE FragTexts(_)
FragTexts(k) ==
    IF k = 0 THEN {<<>>}
    ELSE FragTexts(k - 1) \cup {t \o g : t \in FragTexts(k - 1), g \in Fragments}

ClassValues == {StrV(t) : t \in FragTexts(MaxFrags)} \cup {None, IntV(5)}

ClassValuesShort == {StrV(t) : t \in FragTexts(1)} \cup {None, IntV(5)}

ClassNames == Range(SfCandidates) \cup {"OWNER"}

\* a dict with at most two keys
Attrs2(n1, v1, n2, v2) ==
    [name \in AttrNames |->
        IF name = n1 THEN v1 ELSE IF name = n2 THEN v2 ELSE Missing]

GeomXY == [k |-> "map", x |-> FloatV(-971), y |-> FloatV(332)]

GeomSamples ==
    {GeomXY,
     [k |-> "null", x |-> Missing, y |-> Missing],
     [k |-> "missing", x |-> Missing, y |-> Missing],
     [k |-> "map", x |-> StrV(<<"1">>), y |-> IntV(3)],
     [k |-> "map", x |-> Missing, y |-> BoolV(TRUE)],
     [k |-> "map", x |-> None, y |-> FloatV(0)]}

NormFeatures ==
    {[attributes |-> [k |-> "map", m |-> Attrs2(n[1], v1, n[2], v2)],
      geometry |-> GeomXY] :
        n \in UNION {Range(Aliases[f]) \X Range(Aliases[f]) : f \in AttrFields},
        v1 \in NormValues, v2 \in NormValues}

ShapeFeatures ==
    {[attributes |-> [k |-> ak, m |-> IF ak = "map"
                                      THEN Attrs2("OWNER", StrV(<<"A", "1">>),
                                                  "YEAR_BUILT", IntV(5))
                                      ELSE EmptyAttrs],
      geometry |-> g] :
        ak \in {"map", "null", "missing"}, g \in GeomSamples}

ClassFeatures ==
    {[attributes |-> [k |-> "map", m |-> Attrs2(n1, v1, n2, v2)],
      geometry |-> GeomXY] :
        n1 \in ClassNames, n2 \in ClassNames,
        v1 \in ClassValues, v2 \in ClassValuesShort}

Pending == [done |-> FALSE, raised |-> FALSE, rec |-> NoRecord]

SfPending == [done |-> FALSE, raised |-> FALSE, value |-> FALSE]

(***************************************************************************)
(* Specification of the two pure functions applied to one raw feature.     *)
(***************************************************************************)
NormalizeFeature ==
    /\ ~normResult.done
    /\ normResult' = [done |-> TRUE, raised |-> normalize(feature).raised,
                      rec |-> normalize(feature).rec]
    /\ UNCHANGED <<feature, sfResult>>
    /\ UNCHANGED searchVars

ClassifyFeature ==
    /\ ~sfResult.done
    /\ sfResult' = [done |-> TRUE, raised |-> ClassifyCall(feature).raised,
                    value |-> ClassifyCall(feature).value]
    /\ UNCHANGED <<feature, normResult>>
    /\ UNCHANGED searchVars

(***************************************************************************)
(* Requests, upstream responses and outcomes of the two routes.            *)
(***************************************************************************)
\* the concurrent invocations of the routes
Procs == {"p1", "p2"}

\* r.text[:200]
TruncLen == 200

\* miles * 1609.34, as a multiplier from tenths of a mile to millimetres
MillimetresPerTenthMile == 160934

\* DentonCADClient.miles_to_meters on a radius in tenths of a mile
miles_to_meters(radiusTenths) == radiusTenths * MillimetresPerTenthMile

NoOutcome == [kind |-> "none", status |-> 0, msg |-> "", appended |-> 0,
              exc |-> "", records |-> <<>>]

\* raise HTTPException(status_code, detail = msg + <appended upstream chars>)
HttpError(status, msg, appended) ==
    [kind |-> "http", status |-> status, msg |-> msg, appended |-> appended,
     exc |-> "", records |-> <<>>]

\* an exception no handler catches
Uncaught(exc) ==
    [kind |-> "exc", status |-> 500, msg |-> "", appended |-> 0,
     exc |-> exc, records |-> <<>>]

\* the 422 of a request body that fails SearchRequest's validation
Rejected == [kind |-> "invalid", status |-> 422, msg |-> "", appended |-> 0,
             exc |-> "", records |-> <<>>]

Ok(recs) == [kind |-> "ok", status |-> 200, msg |-> "", appended |-> 0,
             exc |-> "", records |-> recs]

\* the spreadsheet response: one row per record, in order
File(recs) == [kind |-> "file", status |-> 200, msg |-> "", appended |-> 0,
               exc |-> "", records |-> recs]

Min(a, b) == IF a < b THEN a ELSE b

\* SearchRequest validation: address is a required str, radius_miles > 0
ValidRequest(r) == r.address.k = "str" /\ r.radius > 0

NoCoords == [set |-> FALSE, lat |-> 0, lon |-> 0]

\* float(item[key]): [ok, n, exc]
ItemFloat(v) ==
    IF v.k = "missing" THEN [ok |-> FALSE, n |-> 0, exc |-> "KeyError"]
    ELSE IF v.k = "null" THEN [ok |-> FALSE, n |-> 0, exc |-> "TypeError"]
    ELSE IF ToFloat(v).ok THEN [ok |-> TRUE, n |-> ToFloat(v).n, exc |-> ""]
    ELSE [ok |-> FALSE, n |-> 0, exc |-> "ValueError"]

\* geocode_address, but an empty candidate list yields the origin
geocode_defaults_on_empty(resp) ==
    IF resp.kind = "timeout"
    THEN [ok |-> FALSE, coords |-> NoCoords, err |-> Uncaught("Timeout")]
    ELSE IF resp.status # 200
    THEN [ok |-> FALSE, coords |-> NoCoords,
          err |-> HttpError(502, "Geocoding failed: ", Min(resp.bodyLen, TruncLen))]
    ELSE IF resp.json = "invalid"
    THEN [ok |-> FALSE, coords |-> NoCoords, err |-> Uncaught("JSONDecodeError")]
    ELSE IF resp.json = "dict"
    THEN [ok |-> FALSE, coords |-> NoCoords, err |-> Uncaught("KeyError")]
    ELSE IF resp.candidates = <<>>
    THEN [ok |-> TRUE, coords |-> [set |-> TRUE, lat |-> 0, lon |-> 0],
          err |-> NoOutcome]
    ELSE IF ~ItemFloat(resp.candidates[1].lat).ok
    THEN [ok |-> FALSE, coords |-> NoCoords,
          err |-> Uncaught(ItemFloat(resp.candidates[1].lat).exc)]
    ELSE IF ~ItemFloat(resp.candidates[1].lon).ok
    THEN [ok |-> FALSE, coords |-> NoCoords,
          err |-> Uncaught(ItemFloat(resp.candidates[1].lon).exc)]
    ELSE [ok |-> TRUE,
          coords |-> [set |-> TRUE, lat |-> ItemFloat(resp.candidates[1].lat).n,
                      lon |-> ItemFloat(resp.candidates[1].lon).n],
          err |-> NoOutcome]

\* geocode_address on the response of the address lookup service:
\* [ok, coords, err]
geocode_address(resp) ==
    IF resp.kind = "timeout"
    THEN [ok |-> FALSE, coords |-> NoCoords, err |-> Uncaught("Timeout")]
    ELSE IF resp.status # 200
    THEN [ok |-> FALSE, coords |-> NoCoords,
          err |-> HttpError(502, "Geocoding failed: ", Min(resp.bodyLen, TruncLen))]
    ELSE IF resp.json = "invalid"
    THEN [ok |-> FALSE, coords |-> NoCoords, err |-> Uncaught("JSONDecodeError")]
    ELSE IF resp.json = "dict"
    THEN [ok |-> FALSE, coords |-> NoCoords, err |-> Uncaught("KeyError")]
    ELSE IF resp.candidates = <<>>
    THEN [ok |-> FALSE, coords |-> NoCoords,
          err |-> HttpError(404, "Address not found", 0)]
    ELSE IF ~ItemFloat(resp.candidates[1].lat).ok
    THEN [ok |-> FALSE, coords |-> NoCoords,
          err |-> Uncaught(ItemFloat(resp.candidates[1].lat).exc)]
    ELSE IF ~ItemFloat(resp.candidates[1].lon).ok
    THEN [ok |-> FALSE, coords |-> NoCoords,
          err |-> Uncaught(ItemFloat(resp.candidates[1].lon).exc)]
    ELSE [ok |-> TRUE,
          coords |-> [set |-> TRUE, lat |-> ItemFloat(resp.candidates[1].lat).n,
                      lon |-> ItemFloat(resp.candidates[1].lon).n],
          err |-> NoOutcome]

\* DentonCADClient.query_nearby on the response of the feature service:
\* [ok, features, err]; json is "features" (a dict with a features array),
\* "nokey" (a dict without one), "error" (a dict with an error key) or
\* "invalid" (not JSON)
query_nearby(resp) ==
    IF resp.kind = "timeout"
    THEN [ok |-> FALSE, features |-> <<>>, err |-> Uncaught("Timeout")]
    ELSE IF resp.status # 200
    THEN [ok |-> FALSE, features |-> <<>>,
          err |-> HttpError(502, "Denton CAD query failed: ",
                            Min(resp.bodyLen, TruncLen))]
    ELSE IF resp.json = "invalid"
    THEN [ok |-> FALSE, features |-> <<>>, err |-> Uncaught("JSONDecodeError")]
    ELSE IF resp.json = "error"
    THEN [ok |-> FALSE, features |-> <<>>,
          err |-> HttpError(502, "Denton CAD error: ", resp.errLen)]
    ELSE IF resp.json = "nokey"
    THEN [ok |-> TRUE, features |-> <<>>, err |-> NoOutcome]
    ELSE [ok |-> TRUE, features |-> resp.features, err |-> NoOutcome]

\* [client.normalize(f) for f in features]: [raised, recs]
NormalizeAll(fs) ==
    IF \E i \in 1..Len(fs) : normalize(fs[i]).raised
    THEN [raised |-> TRUE, recs |-> <<>>]
    ELSE [raised |-> FALSE, recs |-> [i \in 1..Len(fs) |-> normalize(fs[i]).rec]]

\* [r for r, f in zip(records, features) if client.is_single_family(...)]
RECURSIVE FilterZip(_, _)
FilterZip(recs, fs) ==
    IF recs = <<>> \/ fs = <<>> THEN <<>>
    ELSE (IF ClassifyCall(Head(fs)).value THEN <<Head(recs)>> ELSE <<>>)
            \o FilterZip(Tail(recs), Tail(fs))

\* the comprehension raises when a classifier call raises
FilterRaises(recs, fs) ==
    \E i \in 1..Min(Len(recs), Len(fs)) : ClassifyCall(fs[i]).raised

\* export_properties after search_properties returned, without the
\* emptiness check
export_always(results) == File(results)

\* export_properties after search_properties returned results
export_properties(results) ==
    IF results = <<>>
    THEN HttpError(404, "No properties found for the specified criteria", 0)
    ELSE File(results)

(***************************************************************************)
(* Sample requests and upstream responses.                                 *)
(***************************************************************************)
MainSt == StrV(<<"1", "2", "3", " ", "M", "a", "i", "n", " ", "S", "t">>)

Requests ==
    {[address |-> a, radius |-> r, sf |-> sf, route |-> route] :
        a \in {Missing, StrV(<<>>), MainSt}, r \in {-10, 0, 20},
        sf \in BOOLEAN, route \in {"search", "export"}}

BodyLens == {0, TruncLen, TruncLen + ExtraLen}

Cand1 == [lat |-> StrV(<<"3", "3", ".", "2">>), lon |-> StrV(<<"-", "9", "7", ".", "1">>)]

Cand2 == [lat |-> FloatV(331), lon |-> FloatV(-970)]

CandidateLists ==
    {<<>>, <<Cand1>>, <<Cand2, Cand1>>,
     <<[lat |-> StrV(<<"x">>), lon |-> StrV(<<"-", "9", "7", ".", "1">>)]>>,
     <<[lat |-> StrV(<<"3", "3", ".", "2">>), lon |-> Missing]>>}

GeoTimeout == [kind |-> "timeout", status |-> 0, bodyLen |-> 0,
               json |-> "invalid", candidates |-> <<>>]

GeoList(cands) == [kind |-> "http", status |-> 200, bodyLen |-> 0,
                   json |-> "list", candidates |-> cands]

GeoResponses ==
    {GeoTimeout}
    \cup {[kind |-> "http", status |-> 500, bodyLen |-> n, json |-> "invalid",
           candidates |-> <<>>] : n \in BodyLens}
    \cup {[kind |-> "http", status |-> 200, bodyLen |-> 0, json |-> j,
           candidates |-> <<>>] : j \in {"invalid", "dict"}}
    \cup {GeoList(c) : c \in CandidateLists}

FeatSingle ==
    MkFeature("map",
              Attrs2("LAND_USE", StrV(<<"s", "i", "n", "g", "l", "e", " ", "f", "a", "m", "i", "l", "y", " ", "r", "e", "s", "i", "d", "e", "n", "t", "i", "a", "l">>),
                     "ParcelID", StrV(<<"A", "1">>)),
              "map", FloatV(-971), FloatV(332))

FeatSf ==
    MkFeature("map",
              Attrs2("PropClass", StrV(<<"s", "f">>), "PARCEL_ID", IntV(5)),
              "null", Missing, Missing)

FeatCommercial ==
    MkFeature("map",
              Attrs2("LAND_USE", StrV(<<"c", "o", "m", "m", "e", "r", "c", "i", "a", "l">>),
                     "PARCEL_ID", StrV(<<"C", "3">>)),
              "map", FloatV(-972), FloatV(333))

FeatNullAttrs == MkFeature("null", EmptyAttrs, "map", FloatV(-971), FloatV(332))

SearchFeatures == {FeatSingle, FeatSf, FeatCommercial, FeatNullAttrs}

FeatureLists == UNION {[1..n -> SearchFeatures] : n \in 0..MaxFeatures}

CadTimeout == [kind |-> "timeout", status |-> 0, bodyLen |-> 0,
               json |-> "invalid", errLen |-> 0, features |-> <<>>]

CadFeatures(fs) == [kind |-> "http", status |-> 200, bodyLen |-> 0,
                    json |-> "features", errLen |-> 0, features |-> fs]

CadError(n) == [kind |-> "http", status |-> 200, bodyLen |-> 0,
                json |-> "error", errLen |-> n, features |-> <<>>]

CadResponses ==
    {CadTimeout}
    \cup {[kind |-> "http", status |-> 500, bodyLen |-> n, json |-> "invalid",
           errLen |-> 0, features |-> <<>>] : n \in BodyLens}
    \cup {[kind |-> "http", status |-> 200, bodyLen |-> 0, json |-> j,
           errLen |-> 0, features |-> <<>>] : j \in {"invalid", "nokey"}}
    \cup {CadError(n) : n \in BodyLens}
    \cup {CadFeatures(fs) : fs \in FeatureLists}

\* the inputs of the two-caller specification
ConcRequests ==
    {[address |-> MainSt, radius |-> 20, sf |-> sf, route |-> route] :
        sf \in BOOLEAN, route \in {"search", "export"}}

ConcGeoResponses == {GeoList(<<>>), GeoList(<<Cand1>>), GeoList(<<Cand2>>)}

ConcCadResponses ==
    {CadError(0), CadFeatures(<<>>), CadFeatures(<<FeatSingle>>),
     CadFeatures(<<FeatCommercial, FeatSf>>)}

NoRequest == [lon |-> 0, lat |-> 0, distance |-> 0]

(***************************************************************************)
(* The routes, one step per blocking call.                                 *)
(***************************************************************************)
\* every invocation shares the locals of the first one
SharedFrame(p) == "p1"

\* the local variables (coords, client, features, records, results) of
\* invocation p
Frame(p) == p

\* the invocation's locals are dropped and it responds with out
Respond(p, out) ==
    /\ outcome' = [outcome EXCEPT ![p] = out]
    /\ pc' = [pc EXCEPT ![p] = "done"]
    /\ coords' = [coords EXCEPT ![Frame(p)] = NoCoords]
    /\ features' = [features EXCEPT ![Frame(p)] = <<>>]
    /\ records' = [records EXCEPT ![Frame(p)] = <<>>]

\* an exception leaves search_properties, and export_properties when it is
\* the caller
Fail(p, err) ==
    /\ searchOutcome' = [searchOutcome EXCEPT ![p] = err]
    /\ Respond(p, err)

\* FastAPI validates the body against SearchRequest before the handler runs
ValidateRequest(p) ==
    /\ pc[p] = "new"
    /\ IF ValidRequest(req[p])
       THEN /\ pc' = [pc EXCEPT ![p] = "accepted"]
            /\ UNCHANGED <<coords, features, records, outcome>>
       ELSE Respond(p, Rejected)
    /\ UNCHANGED <<req, geoResp, cadResp, calls, cadRequests, searchOutcome>>
    /\ UNCHANGED featureVars

\* coords = geocode_address(...)
Geocode(p) ==
    /\ pc[p] = "accepted"
    /\ calls' = [calls EXCEPT ![p] = Append(@, "geocode")]
    /\ IF geocode_address(geoResp[p]).ok
       THEN /\ coords' = [coords EXCEPT ![Frame(p)] = geocode_address(geoResp[p]).coords]
            /\ pc' = [pc EXCEPT ![p] = "geocoded"]
            /\ UNCHANGED <<features, records, searchOutcome, outcome>>
       ELSE Fail(p, geocode_address(geoResp[p]).err)
    /\ UNCHANGED <<req, geoResp, cadResp, cadRequests>>
    /\ UNCHANGED featureVars

\* client = DentonCADClient(); features = client.query_nearby(...)
QueryNearby(p) ==
    /\ pc[p] = "geocoded"
    /\ calls' = [calls EXCEPT ![p] = Append(@, "query")]
    /\ cadRequests' = [cadRequests EXCEPT ![p] =
                          [lon |-> coords[Frame(p)].lon,
                           lat |-> coords[Frame(p)].lat,
                           distance |-> miles_to_meters(req[p].radius)]]
    /\ IF query_nearby(cadResp[p]).ok
       THEN /\ features' = [features EXCEPT ![Frame(p)] = query_nearby(cadResp[p]).features]
            /\ pc' = [pc EXCEPT ![p] = "queried"]
            /\ UNCHANGED <<coords, records, searchOutcome, outcome>>
       ELSE Fail(p, query_nearby(cadResp[p]).err)
    /\ UNCHANGED <<req, geoResp, cadResp>>
    /\ UNCHANGED featureVars

\* records = [client.normalize(f) for f in features]
NormalizeRecords(p) ==
    /\ pc[p] = "queried"
    /\ IF NormalizeAll(features[Frame(p)]).raised
       THEN Fail(p, Uncaught("AttributeError"))
       ELSE /\ records' = [records EXCEPT ![Frame(p)] =
                              NormalizeAll(features[Frame(p)]).recs]
            /\ pc' = [pc EXCEPT ![p] = "normalized"]
            /\ UNCHANGED <<coords, features, searchOutcome, outcome>>
    /\ UNCHANGED <<req, geoResp, cadResp, calls, cadRequests>>
    /\ UNCHANGED featureVars

\* the records search_properties returns from its locals
Filtered(p) ==
    IF req[p].sf THEN FilterZip(records[Frame(p)], features[Frame(p)])
    ELSE records[Frame(p)]

\* the single-family filter and the return of search_properties; the export
\* route keeps the returned list in its local `results`
FilterAndReturn(p) ==
    /\ pc[p] = "normalized"
    /\ IF req[p].sf /\ FilterRaises(records[Frame(p)], features[Frame(p)])
       THEN Fail(p, Uncaught("AttributeError"))
       ELSE /\ searchOutcome' = [searchOutcome EXCEPT ![p] = Ok(Filtered(p))]
            /\ IF req[p].route = "search"
               THEN Respond(p, Ok(Filtered(p)))
               ELSE /\ pc' = [pc EXCEPT ![p] = "returned"]
                    /\ coords' = [coords EXCEPT ![Frame(p)] = NoCoords]
                    /\ features' = [features EXCEPT ![Frame(p)] = <<>>]
                    /\ records' = [records EXCEPT ![Frame(p)] = Filtered(p)]
                    /\ UNCHANGED outcome
    /\ UNCHANGED <<req, geoResp, cadResp, calls, cadRequests>>
    /\ UNCHANGED featureVars

\* export_properties after search_properties returned
Export(p) ==
    /\ pc[p] = "returned"
    /\ Respond(p, export_properties(records[Frame(p)]))
    /\ UNCHANGED <<req, geoResp, cadResp, calls, cadRequests, searchOutcome>>
    /\ UNCHANGED featureVars

\* one invocation run from request to response without interleaving
RunAlone(r, g, c) ==
    IF ~ValidRequest(r) THEN Rejected
    ELSE IF ~geocode_address(g).ok THEN geocode_address(g).err
    ELSE IF ~query_nearby(c).ok THEN query_nearby(c).err
    ELSE IF NormalizeAll(query_nearby(c).features).raised
    THEN Uncaught("AttributeError")
    ELSE LET fs == query_nearby(c).features
             recs == IF r.sf THEN FilterZip(NormalizeAll(fs).recs, fs)
                     ELSE NormalizeAll(fs).recs
         IN  IF r.route = "search" THEN Ok(recs) ELSE export_properties(recs)

(***************************************************************************)
(* Specifications.                                                         *)
(***************************************************************************)
IdleRequest == [address |-> MainSt, radius |-> 20, sf |-> TRUE, route |-> "search"]

FeatureIdle ==
    /\ feature = FeatSingle
    /\ normResult = Pending
    /\ sfResult = SfPending

SearchBlank ==
    /\ coords = [p \in Procs |-> NoCoords]
    /\ features = [p \in Procs |-> <<>>]
    /\ records = [p \in Procs |-> <<>>]
    /\ calls = [p \in Procs |-> <<>>]
    /\ cadRequests = [p \in Procs |-> NoRequest]
    /\ searchOutcome = [p \in Procs |-> NoOutcome]
    /\ outcome = [p \in Procs |-> NoOutcome]

\* one caller, every sample request and upstream response
Init ==
    /\ FeatureIdle
    /\ SearchBlank
    /\ \E r \in Requests, g \in GeoResponses, c \in CadResponses :
          /\ req = [p \in Procs |-> IF p = "p1" THEN r ELSE IdleRequest]
          /\ geoResp = [p \in Procs |-> IF p = "p1" THEN g ELSE GeoTimeout]
          /\ cadResp = [p \in Procs |-> IF p = "p1" THEN c ELSE CadTimeout]
    /\ pc = [p \in Procs |-> IF p = "p1" THEN "new" ELSE "idle"]

\* two concurrent callers
InitConc ==
    /\ FeatureIdle
    /\ SearchBlank
    /\ req \in [Procs -> ConcRequests]
    /\ geoResp \in [Procs -> ConcGeoResponses]
    /\ cadResp \in [Procs -> ConcCadResponses]
    /\ pc = [p \in Procs |-> "new"]

\* one raw feature handed to the normalizer and to the classifier
InitFeature ==
    /\ feature \in NormFeatures \cup ShapeFeatures \cup ClassFeatures
    /\ normResult = Pending
    /\ sfResult = SfPending
    /\ SearchBlank
    /\ req = [p \in Procs |-> IdleRequest]
    /\ geoResp = [p \in Procs |-> GeoTimeout]
    /\ cadResp = [p \in Procs |-> CadTimeout]
    /\ pc = [p \in Procs |-> "idle"]

Next ==
    \E p \in Procs :
        \/ ValidateRequest(p)
        \/ Geocode(p)
        \/ QueryNearby(p)
        \/ NormalizeRecords(p)
        \/ FilterAndReturn(p)
        \/ Export(p)

NextFeature == NormalizeFeature \/ ClassifyFeature

Spec == Init /\ [][Next]_vars

SpecConc == InitConc /\ [][Next]_vars

SpecFeature == InitFeature /\ [][NextFeature]_vars

(***************************************************************************)
(* Properties.                                                             *)
(***************************************************************************)
Done(p) == pc[p] = "done"

\* the spatial query was made and answered with a features array
QueryAnswered(p) ==
    /\ Len(calls[p]) = 2
    /\ cadResp[p].kind = "http"
    /\ cadResp[p].status = 200
    /\ cadResp[p].json \in {"features", "nokey"}

AnsweredFeatures(p) ==
    IF cadResp[p].json = "features" THEN cadResp[p].features ELSE <<>>

\* the records of the features that pass the filter, feature by feature
RECURSIVE ExpectedRecords(_, _)
ExpectedRecords(fs, sfOnly) ==
    IF fs = <<>> THEN <<>>
    ELSE (IF sfOnly => is_single_family(AttrsOf(Head(fs)))
          THEN <<normalize(Head(fs)).rec>> ELSE <<>>)
            \o ExpectedRecords(Tail(fs), sfOnly)

\* C1: for every feature list the spatial query returns, the search returns
\* exactly the normalized records of the features that satisfy
\* is_single_family (of every feature when single_family_only is false), in
\* the order of the features.
C1_FilteredInOrder ==
    \A p \in Procs :
        (Done(p) /\ QueryAnswered(p)) =>
            /\ searchOutcome[p].kind = "ok"
            /\ searchOutcome[p].records =
                  ExpectedRecords(AnsweredFeatures(p), req[p].sf)

\* the lookup service answered 200 with a candidate list whose first
\* candidate carries a numeric lat and lon
ReturnsCoordinate(resp) ==
    /\ resp.kind = "http"
    /\ resp.status = 200
    /\ resp.json = "list"
    /\ resp.candidates # <<>>
    /\ ItemFloat(resp.candidates[1].lat).ok
    /\ ItemFloat(resp.candidates[1].lon).ok

EmptyCandidates(resp) ==
    /\ resp.kind = "http"
    /\ resp.status = 200
    /\ resp.json = "list"
    /\ resp.candidates = <<>>

\* C2: one search makes the geocoding call exactly once and first, makes the
\* spatial query exactly once and only after geocoding returned a
\* coordinate, and never makes the spatial query when geocoding failed, in
\* particular on an empty candidate list.
C2_CallOrder ==
    \A p \in Procs :
        /\ calls[p] \in {<<>>, <<"geocode">>, <<"geocode", "query">>}
        /\ Len(calls[p]) = 2 => ReturnsCoordinate(geoResp[p])
        /\ EmptyCandidates(geoResp[p]) => Len(calls[p]) <= 1
        /\ (Done(p) /\ outcome[p].kind # "invalid") => Len(calls[p]) >= 1
        /\ (Done(p) /\ outcome[p].kind # "invalid"
               /\ ReturnsCoordinate(geoResp[p])) => Len(calls[p]) = 2

C2_Witness ==
    \E p \in Procs :
        /\ Done(p)
        /\ EmptyCandidates(geoResp[p])
        /\ calls[p] = <<"geocode">>
        /\ outcome[p].status = 404

NoResultsForExport(out) ==
    /\ out.kind = "http"
    /\ out.status = 404
    /\ out.msg = "No properties found for the specified criteria"

\* the filter ran over fs and removed every record
FilterRemovesAll(fs) ==
    \A i \in 1..Len(fs) :
        /\ fs[i].attributes.k # "null"
        /\ ~is_single_family(AttrsOf(fs[i]))

\* C3: a search whose spatial query yields no feature, or whose filter
\* removes every record, returns an empty sequence and no error; the export
\* of that request fails with NoResultsForExport; export fails so only when
\* the search succeeded with no record, propagates a search failure as it
\* is, and serializes a non-empty result.
C3_EmptyResults ==
    \A p \in Procs :
        Done(p) =>
            /\ (QueryAnswered(p)
                  /\ (AnsweredFeatures(p) = <<>>
                        \/ (req[p].sf /\ FilterRemovesAll(AnsweredFeatures(p)))))
                  => searchOutcome[p] = Ok(<<>>)
            /\ (req[p].route = "export" /\ searchOutcome[p] = Ok(<<>>))
                  => NoResultsForExport(outcome[p])
            /\ NoResultsForExport(outcome[p])
                  => (req[p].route = "export" /\ searchOutcome[p] = Ok(<<>>))
            /\ (req[p].route = "export" /\ searchOutcome[p].kind \in {"http", "exc"})
                  => outcome[p] = searchOutcome[p]
            /\ (req[p].route = "export" /\ searchOutcome[p].kind = "ok"
                  /\ searchOutcome[p].records # <<>>)
                  => outcome[p] = File(searchOutcome[p].records)
            /\ (req[p].route = "search" /\ searchOutcome[p].kind = "ok")
                  => outcome[p] = searchOutcome[p]

C3_Witness ==
    \E p \in Procs :
        /\ Done(p)
        /\ req[p].route = "export"
        /\ req[p].sf
        /\ QueryAnswered(p)
        /\ AnsweredFeatures(p) # <<>>
        /\ searchOutcome[p] = Ok(<<>>)
        /\ NoResultsForExport(outcome[p])

\* the first alternate name that is present with a non-null value
RECURSIVE FirstNonNull(_, _)
FirstNonNull(attrs, names) ==
    IF names = <<>> THEN None
    ELSE IF Get(attrs, Head(names)).k # "null" THEN Get(attrs, Head(names))
    ELSE FirstNonNull(attrs, Tail(names))

\* C4: for every logical attribute, normalize selects the value of the first
\* alternate name, in priority order, that is present and non-null; a
\* present 0, 0.0, false or empty string is never passed over.
C4_FirstNonNullWins ==
    (normResult.done /\ ~normResult.raised) =>
        \A fld \in AttrFields :
            normResult.rec[fld] =
                Convert(fld, FirstNonNull(AttrsOf(feature), Aliases[fld]))

\* no alternate name of fld carries a value
NoValue(attrs, fld) ==
    \A i \in 1..Len(Aliases[fld]) : Get(attrs, Aliases[fld][i]).k = "null"

\* no alternate name of fld carries a value that converts to a number
NoNumber(attrs, fld) ==
    \A i \in 1..Len(Aliases[fld]) : ~ToFloat(Get(attrs, Aliases[fld][i])).ok

\* C5: normalize never raises, whatever the feature (attributes or geometry
\* missing or null included), and a field whose value is missing or fails
\* numeric conversion is absent, never 0.
C5_NormalizeNeverRaises ==
    normResult.done =>
        /\ ~normResult.raised
        /\ \A fld \in AttrFields :
              (IF fld \in StrFields THEN NoValue(AttrsOf(feature), fld)
               ELSE NoNumber(AttrsOf(feature), fld))
                  => normResult.rec[fld] = None

\* the external call failed: a timeout, a non-success status, or a 200 whose
\* JSON body is an error payload
GeoCallFailed(resp) ==
    \/ resp.kind = "timeout"
    \/ resp.status # 200
    \/ resp.json = "dict"

CadCallFailed(resp) ==
    \/ resp.kind = "timeout"
    \/ resp.status # 200
    \/ resp.json = "error"

\* C6: whenever an external call of a search fails (non-success status,
\* error payload in a 200 body, timeout) the search fails with an
\* UpstreamUnavailable error (502) and returns no records.
C6_UpstreamFailureIs502 ==
    \A p \in Procs :
        (Done(p) /\ (\/ (Len(calls[p]) = 1 /\ GeoCallFailed(geoResp[p]))
                     \/ (Len(calls[p]) = 2 /\ CadCallFailed(cadResp[p]))))
            => /\ searchOutcome[p].kind = "http"
               /\ searchOutcome[p].status = 502
               /\ searchOutcome[p].records = <<>>

\* C7: is_single_family never raises and is true exactly when the uppercased
\* string form of some candidate attribute contains SINGLE or SF.
C7_Classifier ==
    (sfResult.done /\ feature.attributes.k # "null") =>
        /\ ~sfResult.raised
        /\ sfResult.value <=>
              \E i \in 1..Len(SfCandidates) :
                 LET text == Upper(Str(GetOrEmpty(AttrsOf(feature), SfCandidates[i])))
                 IN  Contains(text, SINGLE) \/ Contains(text, SF)

\* a lower-case code classifies true thanks to the case normalization, next
\* to a second populated candidate
C7_Witness ==
    /\ sfResult.done
    /\ sfResult.value
    /\ feature.attributes.k = "map"
    /\ ~Contains(Join(JoinSep, SfTexts(AttrsOf(feature))), SF)
    /\ ~Contains(Join(JoinSep, SfTexts(AttrsOf(feature))), SINGLE)
    /\ \E i, j \in 1..Len(SfCandidates) :
          /\ i # j
          /\ feature.attributes.m[SfCandidates[i]].k = "str"
          /\ feature.attributes.m[SfCandidates[j]].k = "str"

\* C8: geocoding or a spatial query is performed only for a request whose
\* address is present and non-empty and whose radius_miles is above 0.
C8_OnlyValidRequestsSearch ==
    \A p \in Procs :
        calls[p] # <<>> =>
            /\ req[p].address.k = "str"
            /\ req[p].address.s # <<>>
            /\ req[p].radius > 0

\* C9: the upstream text carried by an UpstreamUnavailable error (502) is
\* never longer than the truncation length.
C9_DetailBounded ==
    \A p \in Procs :
        (outcome[p].kind = "http" /\ outcome[p].status = 502)
            => outcome[p].appended <= TruncLen

\* C10: under every interleaving, a finished invocation's outcome is the one
\* it has when run alone on the same request and upstream responses, and
\* none of its locals survives its return.
C10_Independent ==
    \A p \in Procs :
        Done(p) =>
            /\ outcome[p] = RunAlone(req[p], geoResp[p], cadResp[p])
            /\ coords[p] = NoCoords
            /\ features[p] = <<>>
            /\ records[p] = <<>>

\* one caller has its result while the other is between its two calls
C10_Witness ==
    \E p, q \in Procs :
        /\ p # q
        /\ Done(p)
        /\ outcome[p].kind = "ok"
        /\ outcome[p].records # <<>>
        /\ pc[q] = "queried"
        /\ features[q] # <<>>
        /\ features[q] # AnsweredFeatures(p)

====
